---- MODULE Spec2Model ----
(***************************************************************************)
(* Model of the physical layout converter (src/app.py, src/vis.py): the    *)
(* Layout Model, the normalizer, the fixed-point numeric codec, the JSON   *)
(* and DTS codecs, and the web app's session and its update protocol.      *)
(*                                                                         *)
(* Representation.                                                         *)
(*  - A decimal value v is the integer v * Unit (Unit = 4 * Scale, so a    *)
(*    value with at most 2 fractional digits is a multiple of 4, and       *)
(*    0.125 is 50).  Float arithmetic is modelled as exact arithmetic.     *)
(*  - The argument of num_to_str (a float) is an integer number of         *)
(*    quarters.                                                            *)
(*  - A text token is a sequence of one-character strings.                 *)
(*  - An optional field (Python None) is <<>> when absent, <<v>> when      *)
(*    present.                                                             *)
(*  - A Python dict is a sequence of [name, ...] entries with distinct     *)
(*    names, in insertion order.                                           *)
(*  - A call that raises returns Fail(e); one that returns v gives Ok(v).  *)
(*  - DTS text is modelled at the interface of the external DeviceTree     *)
(*    parser: the list of compatible nodes, each with its display-name and *)
(*    keys phandle array, and the root node's keys array.  A binding is    *)
(*    its tag and its argument tokens (binding_arr.split()).               *)
(*  - JSON text is modelled as the value json.loads gives.                 *)
(*  - st.session_state is a function from the names of the items it holds  *)
(*    to their values; the text of a text area is the value it parses to.  *)
(***************************************************************************)
EXTENDS Integers, Sequences, FiniteSets, TLC

VARIABLES op, arg, res, pc,
          state, query_params, event, updated, at, error, dialog, actions

\* The variables of the web app: the session (see "The web app" below).
session == <<state, query_params, event, updated, at, error, dialog, actions>>

vars == <<op, arg, res, pc, session>>

(***************************************************************************)
(* Bounds of the model.                                                    *)
(***************************************************************************)
MaxKeys == 2

MaxTokLen == 6

MaxNodes == 2

(***************************************************************************)
(* Program constants.                                                      *)
(***************************************************************************)
Scale == 100

Unit == 4 * Scale

(***************************************************************************)
(* Results and optional values.                                            *)
(***************************************************************************)
Ok(v) == [ok |-> TRUE, err |-> "", val |-> v]

Fail(e) == [ok |-> FALSE, err |-> e, val |-> <<>>]

None == <<>>

Some(v) == <<v>>

SeqsUpTo(S, n) == UNION {[1..k -> S] : k \in 0..n}

SetMin(S) == CHOOSE m \in S : \A n \in S : m <= n

(***************************************************************************)
(* QmkLayout.QmkKey: x, y required; w, h default 1.0; r default 0; rx, ry  *)
(* default None.                                                           *)
(***************************************************************************)
DefaultW == Unit

DefaultH == Unit

DefaultR == 0

FieldNames == {"x", "y", "w", "h", "r", "rx", "ry"}

\* QmkKey(**d): the key built from the dict d (a function on a subset of
\* FieldNames whose values are numbers).
QmkKey(d) ==
    [x  |-> d["x"],
     y  |-> d["y"],
     w  |-> IF "w" \in DOMAIN d THEN d["w"] ELSE DefaultW,
     h  |-> IF "h" \in DOMAIN d THEN d["h"] ELSE DefaultH,
     r  |-> IF "r" \in DOMAIN d THEN d["r"] ELSE DefaultR,
     rx |-> IF "rx" \in DOMAIN d THEN Some(d["rx"]) ELSE None,
     ry |-> IF "ry" \in DOMAIN d THEN Some(d["ry"]) ELSE None]

\* QmkLayout(layout=ds): validation fails when a required field is missing.
QmkLayout(ds) ==
    IF \E i \in 1..Len(ds) : ~({"x", "y"} \subseteq DOMAIN ds[i])
    THEN Fail("ValidationError")
    ELSE Ok([i \in 1..Len(ds) |-> QmkKey(ds[i])])

(***************************************************************************)
(* _normalize_layout                                                       *)
(***************************************************************************)
ShiftOpt(o, d) == IF o = None THEN None ELSE Some(o[1] - d)

ShiftKeys(layout, dx, dy) ==
    [i \in 1..Len(layout) |->
        [layout[i] EXCEPT !.x = @ - dx, !.y = @ - dy,
                          !.rx = ShiftOpt(@, dx), !.ry = ShiftOpt(@, dy)]]

MinX(layout) == SetMin({layout[i].x : i \in 1..Len(layout)})

MinY(layout) == SetMin({layout[i].y : i \in 1..Len(layout)})

\* Faulty variant: min_x and min_y transposed.
_normalize_layout_swapped(layout) ==
    IF Len(layout) = 0
    THEN Fail("ValueError: min() arg is an empty sequence")
    ELSE Ok(ShiftKeys(layout, MinY(layout), MinX(layout)))

\* Faulty variant: the rotation origin is not shifted.
_normalize_layout_no_origin(layout) ==
    IF Len(layout) = 0
    THEN Fail("ValueError: min() arg is an empty sequence")
    ELSE Ok([i \in 1..Len(layout) |->
               [layout[i] EXCEPT !.x = @ - MinX(layout), !.y = @ - MinY(layout)]])

_normalize_layout(layout) ==
    IF Len(layout) = 0
    THEN Fail("ValueError: min() arg is an empty sequence")
    ELSE Ok(ShiftKeys(layout, MinX(layout), MinY(layout)))

(***************************************************************************)
(* Text: str(int), str.lstrip, str.rstrip, int(str).                       *)
(***************************************************************************)
Digits == <<"0", "1", "2", "3", "4", "5", "6", "7", "8", "9">>

IsDigit(c) == \E d \in 1..10 : Digits[d] = c

DigitValue(c) == (CHOOSE d \in 1..10 : Digits[d] = c) - 1

IsDigits(s) == Len(s) > 0 /\ \A i \in 1..Len(s) : IsDigit(s[i])

RECURSIVE DecValue(_)
DecValue(s) ==
    IF Len(s) = 0 THEN 0
    ELSE 10 * DecValue(SubSeq(s, 1, Len(s) - 1)) + DigitValue(s[Len(s)])

RECURSIVE NatToStr(_)
NatToStr(n) ==
    IF n < 10 THEN <<Digits[n + 1]>>
    ELSE NatToStr(n \div 10) \o <<Digits[(n % 10) + 1]>>

\* str(n) of an int
IntToStr(n) == IF n < 0 THEN <<"-">> \o NatToStr(-n) ELSE NatToStr(n)

RECURSIVE lstrip(_, _)
lstrip(s, c) == IF Len(s) > 0 /\ s[1] = c THEN lstrip(Tail(s), c) ELSE s

RECURSIVE rstrip(_, _)
rstrip(s, c) ==
    IF Len(s) > 0 /\ s[Len(s)] = c THEN rstrip(SubSeq(s, 1, Len(s) - 1), c) ELSE s

\* int(s): an optional sign and at least one digit, anything else raises.
ParseInt(s) ==
    LET signed == Len(s) > 0 /\ s[1] \in {"-", "+"}
        body   == IF signed THEN Tail(s) ELSE s
    IN  IF ~IsDigits(body)
        THEN Fail("ValueError: invalid literal for int()")
        ELSE Ok(IF signed /\ s[1] = "-" THEN -DecValue(body) ELSE DecValue(body))

(***************************************************************************)
(* layouts_to_dts.num_to_str and the encoder's 100 * value                 *)
(***************************************************************************)
\* Faulty variant: ties are rounded away from zero.
round_half_away(q) ==
    IF q >= 0 THEN (q + 2) \div 4 ELSE -((2 - q) \div 4)

\* round(num) of the float num = q / 4: nearest integer, ties to even.
round(q) ==
    LET fl == q \div 4
        rem == q % 4
    IN  IF rem < 2 THEN fl
        ELSE IF rem > 2 THEN fl + 1
        ELSE IF fl % 2 = 0 THEN fl ELSE fl + 1

num_to_str(q) ==
    IF q >= 0 THEN IntToStr(round(q))
    ELSE <<"(">> \o IntToStr(round(q)) \o <<")">>

\* 100 * v, in quarters, of the value v (in 1/Unit)
Times100(v) == (Scale * v * 4) \div Unit

\* the token of one key field: num_to_str(100 * key.x)
EncodeField(v) == num_to_str(Times100(v))

(***************************************************************************)
(* dts_to_layouts.parse_binding_params                                     *)
(***************************************************************************)
\* int(v.lstrip("(").rstrip(")")) / 100
DecodeToken(v) ==
    LET p == ParseInt(rstrip(lstrip(v, "("), ")"))
    IN  IF p.ok THEN Ok((p.val * Unit) \div Scale) ELSE p

ParamNames == <<"w", "h", "x", "y", "r", "rx", "ry">>

ParamIndex(k) == CHOOSE i \in 1..Len(ParamNames) : ParamNames[i] = k

Min2(a, b) == IF a < b THEN a ELSE b

\* Faulty variant: rx and ry are kept when r is 0.
parse_binding_params_keep(bindings) ==
    LET n == Min2(Len(ParamNames), Len(bindings))
        names == {ParamNames[i] : i \in 1..n}
    IN  IF \E i \in 1..n : ~DecodeToken(bindings[i]).ok
        THEN Fail("ValueError: invalid literal for int()")
        ELSE IF "r" \notin names THEN Fail("KeyError")
        ELSE Ok([k \in names |-> DecodeToken(bindings[ParamIndex(k)]).val])

parse_binding_params(bindings) ==
    LET n == Min2(Len(ParamNames), Len(bindings))
        names == {ParamNames[i] : i \in 1..n}
        params == [k \in names |-> DecodeToken(bindings[ParamIndex(k)]).val]
    IN  IF \E i \in 1..n : ~DecodeToken(bindings[i]).ok
        THEN Fail("ValueError: invalid literal for int()")
        ELSE IF "r" \notin names THEN Fail("KeyError")
        ELSE IF params["r"] = 0
             THEN IF {"rx", "ry"} \subseteq names
                  THEN Ok([k \in names \ {"rx", "ry"} |-> params[k]])
                  ELSE Fail("KeyError")
             ELSE Ok(params)

(***************************************************************************)
(* Dicts and loops that stop at the first exception.                       *)
(***************************************************************************)
\* The result of a loop over rs (one result per iteration): the first
\* failure, or all the values.
FirstFail(rs) ==
    IF \E i \in 1..Len(rs) : ~rs[i].ok
    THEN rs[SetMin({i \in 1..Len(rs) : ~rs[i].ok})]
    ELSE Ok([i \in 1..Len(rs) |-> rs[i].val])

\* d[k] = v on a dict of [name, keys] entries: a new name is appended, an
\* existing one keeps its place and takes the new value.
DictSet(d, k, v) ==
    IF \E i \in 1..Len(d) : d[i].name = k
    THEN [i \in 1..Len(d) |-> IF d[i].name = k THEN [name |-> k, keys |-> v] ELSE d[i]]
    ELSE Append(d, [name |-> k, keys |-> v])

(***************************************************************************)
(* layouts_to_json, qmk_json_to_layouts                                    *)
(***************************************************************************)
\* key.model_dump(exclude_defaults=True, exclude_unset=True): the fields that
\* differ from their default; x and y have none.
DumpedFields(key) ==
    {"x", "y"}
    \cup (IF key.w # DefaultW THEN {"w"} ELSE {})
    \cup (IF key.h # DefaultH THEN {"h"} ELSE {})
    \cup (IF key.r # DefaultR THEN {"r"} ELSE {})
    \cup (IF key.rx # None THEN {"rx"} ELSE {})
    \cup (IF key.ry # None THEN {"ry"} ELSE {})

FieldOf(key, f) ==
    CASE f = "x" -> key.x
      [] f = "y" -> key.y
      [] f = "w" -> key.w
      [] f = "h" -> key.h
      [] f = "r" -> key.r
      [] f = "rx" -> key.rx[1]
      [] f = "ry" -> key.ry[1]

\* Faulty variant: an absent rotation origin is dumped as 0.
model_dump_origin_zero(key) ==
    [f \in DumpedFields(key) \cup {"rx", "ry"} |->
        IF f = "rx" /\ key.rx = None THEN 0
        ELSE IF f = "ry" /\ key.ry = None THEN 0
        ELSE FieldOf(key, f)]

model_dump(key) == [f \in DumpedFields(key) |-> FieldOf(key, f)]

\* The value json.loads reads back from the text of layouts_to_json.
layouts_to_json(layouts_map) ==
    [kind |-> "object",
     layouts |-> Some([i \in 1..Len(layouts_map) |->
                    [name |-> layouts_map[i].name,
                     layout |-> Some([j \in 1..Len(layouts_map[i].layout) |->
                                        model_dump(layouts_map[i].layout[j])])]])]

\* One item of qmk_info["layouts"].items().
JsonEntryToLayout(entry) ==
    IF entry.layout = None THEN Fail("KeyError")
    ELSE LET q == QmkLayout(entry.layout[1])
         IN  IF ~q.ok THEN q
             ELSE LET n == _normalize_layout(q.val)
                  IN  IF ~n.ok THEN n
                      ELSE Ok([name |-> entry.name, layout |-> n.val])

qmk_json_to_layouts(qmk_info) ==
    IF qmk_info.kind = "list"
    THEN LET q == QmkLayout(qmk_info.items)
         IN  IF ~q.ok THEN q ELSE Ok(<<[name |-> "Default", layout |-> q.val]>>)
    ELSE IF qmk_info.layouts = None THEN Fail("KeyError")
    ELSE FirstFail([i \in 1..Len(qmk_info.layouts[1]) |->
                      JsonEntryToLayout(qmk_info.layouts[1][i])])

(***************************************************************************)
(* layouts_to_dts, dts_to_layouts                                          *)
(***************************************************************************)
\* key.rx or 0
OrZero(o) == IF o = None THEN 0 ELSE o[1]

\* KEY_TEMPLATE: <&key_physical_attrs w h x y rot rx ry>
KeyToBinding(key) ==
    [tag |-> [amps |-> 1, name |-> "key_physical_attrs"],
     args |-> <<EncodeField(key.w), EncodeField(key.h), EncodeField(key.x),
                EncodeField(key.y), EncodeField(key.r),
                EncodeField(OrZero(key.rx)), EncodeField(OrZero(key.ry))>>]

\* The tree the DeviceTree parser reads back from the text of layouts_to_dts:
\* one compatible node per layout, no keys property on the root.
layouts_to_dts(layouts_map) ==
    [nodes |-> [i \in 1..Len(layouts_map) |->
                  [display_name |-> Some(layouts_map[i].name),
                   keys |-> Some([j \in 1..Len(layouts_map[i].layout) |->
                                    KeyToBinding(layouts_map[i].layout[j])])]],
     root_keys |-> None]

bindings_to_position == {"key_physical_attrs"}

\* bindings_to_position[binding[0].lstrip("&")](binding[1:])
BindingToKey(binding) ==
    IF binding.tag.name \notin bindings_to_position
    THEN Fail("AssertionError: Unrecognized position binding")
    ELSE parse_binding_params(binding.args)

RECURSIVE DictOfNodes(_)
\* {node.get_string("display-name"): node.get_phandle_array("keys") for node in nodes}
DictOfNodes(nodes) ==
    IF Len(nodes) = 0 THEN <<>>
    ELSE DictSet(DictOfNodes(SubSeq(nodes, 1, Len(nodes) - 1)),
                 nodes[Len(nodes)].display_name, nodes[Len(nodes)].keys)

\* One iteration of the loop over defined_layouts.items().
DtsEntryToLayout(entry) ==
    IF entry.name = None
    THEN Fail("AssertionError: No display_name property found")
    ELSE IF entry.keys = None
    THEN Fail("AssertionError: No keys property found")
    ELSE LET ks == FirstFail([i \in 1..Len(entry.keys[1]) |-> BindingToKey(entry.keys[1][i])])
         IN  IF ~ks.ok THEN ks
             ELSE LET q == QmkLayout(ks.val)
                  IN  IF ~q.ok THEN q
                      ELSE LET n == _normalize_layout(q.val)
                           IN  IF ~n.ok THEN n
                               ELSE Ok([name |-> entry.name[1], layout |-> n.val])

DefinedLayouts(dts) ==
    IF Len(dts.nodes) > 0 THEN Ok(DictOfNodes(dts.nodes))
    ELSE IF dts.root_keys # None /\ Len(dts.root_keys[1]) > 0
    THEN Ok(<<[name |-> Some("Default"), keys |-> dts.root_keys]>>)
    ELSE Fail("ValueError: No compatible nodes nor a single keys property found")

dts_to_layouts(dts) ==
    LET defined_layouts == DefinedLayouts(dts)
    IN  IF ~defined_layouts.ok THEN defined_layouts
        ELSE FirstFail([i \in 1..Len(defined_layouts.val) |->
                          DtsEntryToLayout(defined_layouts.val[i])])

(***************************************************************************)
(* Inputs.                                                                 *)
(***************************************************************************)
OriginInputs == {<<None, None>>, <<Some(200), None>>, <<Some(-200), Some(600)>>}

\* <<w, r>>: an unrotated key of default width, a rotated wide key.
ShapeInputs == {<<DefaultW, 0>>, <<600, 15 * Unit>>}

KeyInputs ==
    {[x |-> x, y |-> y, w |-> s[1], h |-> DefaultH, r |-> s[2], rx |-> o[1], ry |-> o[2]] :
        x \in {-400, 0, 600}, y \in {0, 200}, s \in ShapeInputs, o \in OriginInputs}

\* Key field values handed to the encoder: -1.3 .. 1.3 in steps of 1/Unit.
ValueInputs == -520..520

TokenChars == {"(", ")", "-", "0", "1"}

T0 == <<"0">>

T100 == <<"1", "0", "0">>

\* Well-formed argument lists: w h x y r rx ry.
GoodArgs ==
    {<<T100, T100, x, y, r, rx, ry>> :
        x \in {T0, <<"(", "-", "1", "0", "0", ")">>},
        y \in {T0, <<"1", "2", "5">>},
        r \in {T0, <<"-", "0">>, <<"1", "5", "0", "0">>, <<"(", "-", "1", "5", "0", "0", ")">>},
        rx \in {T0, <<"5", "0">>, <<"(", "-", "5", "0", ")">>},
        ry \in {T0, <<"5", "0">>}}

\* Argument lists with fewer or more than seven tokens.
OtherCountArgs ==
    {SubSeq(a, 1, n) : a \in GoodArgs, n \in 0..6} \cup {a \o <<T0>> : a \in GoodArgs}

\* Argument lists with the token t for x, or for r.
ArgsWithX(t) == <<T100, T100, t, T0, <<"1", "5", "0", "0">>, <<"5", "0">>, T0>>

ArgsWithR(t) == <<T100, T100, T0, T0, t, <<"5", "0">>, <<"5", "0">>>>

\* Keys of the Layout Sets handed to the encoders: defaults only; a rotated
\* key with its origin; a rotated key without origin; an unrotated wide key
\* with an origin; a key at x = 0.125.
SetKeyInputs ==
    {[x |-> 0, y |-> 0, w |-> DefaultW, h |-> DefaultH, r |-> 0, rx |-> None, ry |-> None],
     [x |-> -400, y |-> 400, w |-> DefaultW, h |-> DefaultH, r |-> 15 * Unit,
      rx |-> Some(0), ry |-> Some(200)],
     [x |-> 600, y |-> 0, w |-> DefaultW, h |-> DefaultH, r |-> 15 * Unit,
      rx |-> None, ry |-> None],
     [x |-> 200, y |-> 200, w |-> 600, h |-> DefaultH, r |-> 0,
      rx |-> Some(200), ry |-> Some(200)],
     [x |-> 50, y |-> 0, w |-> DefaultW, h |-> DefaultH, r |-> 0, rx |-> None, ry |-> None]}

LayoutNames == {"Default", "A"}

MkLayout(n, v) == [name |-> n, layout |-> v]

\* The dicts of one entry, and of two, with names from LayoutNames and
\* values from V.
Entries1(V) == {<<MkLayout(n, v)>> : n \in LayoutNames, v \in V}

Entries2(V) ==
    {<<MkLayout(n[1], v1), MkLayout(n[2], v2)>> :
        n \in {<<"Default", "A">>, <<"A", "Default">>}, v1 \in V, v2 \in V}

\* Key objects of a JSON text: x, y only; not at the origin; with a width;
\* rotated about an origin, at negative x; without x.
JsonKeyInputs ==
    {[f \in {"x", "y"} |-> 0],
     [f \in {"x", "y"} |-> IF f = "x" THEN 400 ELSE 200],
     [f \in {"x", "y", "w"} |-> IF f = "w" THEN 600 ELSE 400],
     [f \in {"x", "y", "r", "rx", "ry"} |->
        IF f = "x" THEN -400 ELSE IF f = "r" THEN 15 * Unit ELSE 200],
     [f \in {"y"} |-> 0]}

\* "layout" values of a JSON text: absent, or an array of key objects.
JsonLayoutInputs == {None} \cup {Some(items) : items \in SeqsUpTo(JsonKeyInputs, MaxKeys)}

B(args) == [tag |-> [amps |-> 1, name |-> "key_physical_attrs"], args |-> args]

TNeg100 == <<"(", "-", "1", "0", "0", ")">>

\* keys properties of a DTS text: absent; empty; one key at 0 0; a key at
\* 1 0 and a rotated one at -1 0; an unrecognized tag; a binding of 4 tokens.
KeysInputs ==
    {None,
     Some(<<>>),
     Some(<<B(<<T100, T100, T0, T0, T0, T0, T0>>)>>),
     Some(<<B(<<T100, T100, T100, T0, T0, T0, T0>>),
            B(<<T100, T100, TNeg100, T0, <<"1", "5", "0", "0">>, <<"5", "0">>, T0>>)>>),
     Some(<<[tag |-> [amps |-> 1, name |-> "other_attrs"],
             args |-> <<T100, T100, T0, T0, T0, T0, T0>>]>>),
     Some(<<B(<<T100, T100, T0, T0>>)>>)}

NodeInputs ==
    {[display_name |-> n, keys |-> k] : n \in {None, Some("A"), Some("B")}, k \in KeysInputs}

RootKeysInputs ==
    {None, Some(<<>>), Some(<<B(<<T100, T100, T100, T100, T0, T0, T0>>)>>)}

\* No event of the user: a run that only redraws the page.  An event is the
\* widget used (kind), the layout selected in the dialog (selected) and the
\* layouts the widget gives (val).
NoEvent == [kind |-> "none", selected |-> 0, val |-> <<>>]

\* The web app is not in use.
NoSession ==
    /\ state = <<>>
    /\ query_params = None
    /\ event = NoEvent
    /\ updated = FALSE
    /\ at = "idle"
    /\ error = ""
    /\ dialog = FALSE
    /\ actions = 0

(***************************************************************************)
(* The state machine: a call of one operation of the converter.  Init      *)
(* draws the operation (op) and its input (arg); the operation's action    *)
(* applies it and leaves its result in res.  pc is "call" before the       *)
(* operation ran and "done" after.                                         *)
(***************************************************************************)
Init ==
    /\ pc = "call"
    /\ res = Ok(<<>>)
    /\ NoSession
    /\ \/ op = "_normalize_layout" /\ \E k \in 0..MaxKeys : arg \in [1..k -> KeyInputs]
       \/ op = "num_to_str" /\ arg \in ValueInputs
       \/ op = "parse_binding_params" /\ arg \in GoodArgs \cup OtherCountArgs
       \/ /\ op \in {"layouts_to_json", "layouts_to_dts"}
          /\ \/ arg = <<>>
             \/ \E k1 \in 0..MaxKeys : \E v1 \in [1..k1 -> SetKeyInputs] : \E n \in LayoutNames :
                   arg = <<MkLayout(n, v1)>>
             \/ \E k1, k2 \in 0..MaxKeys :
                   \E v1 \in [1..k1 -> SetKeyInputs], v2 \in [1..k2 -> SetKeyInputs] :
                      arg \in {<<MkLayout("Default", v1), MkLayout("A", v2)>>,
                               <<MkLayout("A", v1), MkLayout("Default", v2)>>}
       \/ /\ op = "qmk_json_to_layouts"
          /\ \/ \E k \in 0..MaxKeys : \E items \in [1..k -> JsonKeyInputs] :
                   arg = [kind |-> "list", items |-> items]
             \/ arg = [kind |-> "object", layouts |-> None]
             \/ \E ls \in {<<>>} \cup Entries1(JsonLayoutInputs)
                            \cup Entries2(JsonLayoutInputs) :
                   arg = [kind |-> "object", layouts |-> Some(ls)]
       \/ /\ op = "dts_to_layouts"
          /\ \E k \in 0..MaxNodes : \E nodes \in [1..k -> NodeInputs] :
                \E root_keys \in RootKeysInputs :
                   arg = [nodes |-> nodes, root_keys |-> root_keys]
       \/ /\ op = "parse_binding_params"
          /\ \E k \in 1..MaxTokLen : \E t \in [1..k -> TokenChars] :
                arg \in {ArgsWithX(t), ArgsWithR(t)}

Normalize ==
    /\ pc = "call"
    /\ op = "_normalize_layout"
    /\ res' = _normalize_layout(arg)
    /\ pc' = "done"
    /\ UNCHANGED <<op, arg, session>>

\* A normalized layout is normalized again (a decoded layout that is
\* encoded and decoded once more).
NormalizeAgain ==
    /\ pc = "done"
    /\ op = "_normalize_layout"
    /\ res.ok
    /\ op' = "_normalize_layout again"
    /\ arg' = res.val
    /\ res' = _normalize_layout(res.val)
    /\ pc' = "done"
    /\ UNCHANGED session

\* The encoder formats one key field: num_to_str(100 * value).
NumToStr ==
    /\ pc = "call"
    /\ op = "num_to_str"
    /\ res' = Ok(EncodeField(arg))
    /\ pc' = "done"
    /\ UNCHANGED <<op, arg, session>>

ParseBindingParams ==
    /\ pc = "call"
    /\ op = "parse_binding_params"
    /\ res' = parse_binding_params(arg)
    /\ pc' = "done"
    /\ UNCHANGED <<op, arg, session>>

LayoutsToJson ==
    /\ pc = "call"
    /\ op = "layouts_to_json"
    /\ res' = Ok(layouts_to_json(arg))
    /\ pc' = "done"
    /\ UNCHANGED <<op, arg, session>>

\* The JSON text of a Layout Set is decoded (arg stays the Layout Set).
JsonRoundTrip ==
    /\ pc = "done"
    /\ op = "layouts_to_json"
    /\ op' = "json round trip"
    /\ res' = qmk_json_to_layouts(res.val)
    /\ UNCHANGED <<arg, pc, session>>

LayoutsToDts ==
    /\ pc = "call"
    /\ op = "layouts_to_dts"
    /\ res' = Ok(layouts_to_dts(arg))
    /\ pc' = "done"
    /\ UNCHANGED <<op, arg, session>>

\* The DTS text of a Layout Set is decoded (arg stays the Layout Set).
DtsRoundTrip ==
    /\ pc = "done"
    /\ op = "layouts_to_dts"
    /\ op' = "dts round trip"
    /\ res' = dts_to_layouts(res.val)
    /\ UNCHANGED <<arg, pc, session>>

QmkJsonToLayouts ==
    /\ pc = "call"
    /\ op = "qmk_json_to_layouts"
    /\ res' = qmk_json_to_layouts(arg)
    /\ pc' = "done"
    /\ UNCHANGED <<op, arg, session>>

DtsToLayouts ==
    /\ pc = "call"
    /\ op = "dts_to_layouts"
    /\ res' = dts_to_layouts(arg)
    /\ pc' = "done"
    /\ UNCHANGED <<op, arg, session>>

Next ==
    \/ LayoutsToJson
    \/ JsonRoundTrip
    \/ LayoutsToDts
    \/ DtsRoundTrip
    \/ QmkJsonToLayouts
    \/ DtsToLayouts
    \/ Normalize
    \/ NormalizeAgain
    \/ NumToStr
    \/ ParseBindingParams

Spec == Init /\ [][Next]_vars

(***************************************************************************)
(* The web app (main and its columns).  A run of the script goes through   *)
(* the positions of `at` in the order of the code; "idle" is the page at   *)
(* rest after a run that did not ask for a rerun.  The user's use of a     *)
(* widget starts a new run from the top with that widget's event, whether  *)
(* the page is at rest or a run is under way (the run under way is         *)
(* abandoned where it stands; what it wrote to the session stays).         *)
(***************************************************************************)
\* The number of widget uses of the user in one session.
MaxActions == 3

Has(k) == k \in DOMAIN state

\* st.session_state[k] = v.
SetItem(st, k, v) == [j \in DOMAIN st \cup {k} |-> IF j = k THEN v ELSE st[j]]

\* st.session_state.get(k).
Item(st, k) == IF k \in DOMAIN st THEN Some(st[k]) ELSE None

\* state.layouts = v; state.need_update = True.
Replace(st, v) == SetItem(SetItem(st, "layouts", v), "need_update", TRUE)

\* Faulty variant: need_update is set whether the decode returned or raised.
OnDecode_finally(st, r) ==
    SetItem(IF r.ok THEN SetItem(st, "layouts", r.val) ELSE st, "need_update", TRUE)

\* try: state.layouts = <decode> / except: handle_exception /
\* else: state.need_update = True.
OnDecode(st, r) == IF r.ok THEN Replace(st, r.val) ELSE st

AppKey(x, y) ==
    [x |-> x, y |-> y, w |-> DefaultW, h |-> DefaultH, r |-> 0, rx |-> None, ry |-> None]

\* The text of example.json: one layout of two keys.
InitialLayout ==
    [kind |-> "object",
     layouts |-> Some(<<[name |-> "Default",
                         layout |-> Some(<<[f \in {"x", "y"} |-> 0],
                                           [f \in {"x", "y"} |-> IF f = "x" THEN Unit ELSE 0]>>)]>>)]

\* Texts the user types in the JSON area: a layout of one key at 1, 0.5, in
\* the object form and as a bare array; an object without "layouts".
JsonTexts ==
    {[kind |-> "object",
      layouts |-> Some(<<[name |-> "A",
                          layout |-> Some(<<[f \in {"x", "y"} |->
                                               IF f = "x" THEN 400 ELSE 200]>>)]>>)],
     [kind |-> "list", items |-> <<[f \in {"x", "y"} |-> IF f = "x" THEN 400 ELSE 200]>>],
     [kind |-> "object", layouts |-> None]}

\* Texts the user types in the Devicetree area: one node of one key; a text
\* without layouts.
DtsTexts ==
    {[nodes |-> <<[display_name |-> Some("A"),
                   keys |-> Some(<<B(<<T100, T100, T0, T0, T0, T0, T0>>)>>)]>>,
      root_keys |-> None],
     [nodes |-> <<>>, root_keys |-> None]}

\* What the ortho form generates, a shared layout, and a layout edited in
\* the dataframe editor (its one key at x = 1).
OrthoLayouts == <<MkLayout("Default", <<AppKey(0, 0), AppKey(0, Unit)>>)>>

SharedLayouts == <<MkLayout("A", <<AppKey(0, 0)>>), MkLayout("Default", <<AppKey(0, 0)>>)>>

EditedLayout == <<AppKey(Unit, 0)>>

AppInit ==
    /\ op = "app"
    /\ arg = <<>>
    /\ res = Ok(<<>>)
    /\ pc = "done"
    /\ state = <<>>
    /\ query_params \in {None} \cup {Some(t) : t \in JsonTexts}
    /\ event = NoEvent
    /\ updated = FALSE
    /\ at = "main"
    /\ error = ""
    /\ dialog = FALSE
    /\ actions = 0

\* main: need_update is created, and read into updated.
main_need_update ==
    /\ at = "main"
    /\ LET st == IF Has("need_update") THEN state ELSE SetItem(state, "need_update", FALSE)
       IN  /\ state' = st
           /\ updated' = st.need_update
    /\ error' = ""
    /\ at' = "query"
    /\ UNCHANGED <<op, arg, res, pc, query_params, event, dialog, actions>>

\* main: a layout in the query parameters is decoded, and the script rerun;
\* a decode that raises ends the run.
main_query_params ==
    /\ at = "query"
    /\ IF query_params # None
       THEN LET r == qmk_json_to_layouts(query_params[1])
            IN  IF r.ok
                THEN /\ state' = Replace(state, r.val)
                     /\ query_params' = None
                     /\ event' = NoEvent
                     /\ at' = "main"
                     /\ UNCHANGED error
                ELSE /\ error' = r.err
                     /\ at' = "idle"
                     /\ UNCHANGED <<state, query_params, event>>
       ELSE /\ at' = "first"
            /\ UNCHANGED <<state, query_params, event, error>>
    /\ UNCHANGED <<op, arg, res, pc, updated, dialog, actions>>

\* main: the first run of a session loads the initial layout.
main_first_load ==
    /\ at = "first"
    /\ state' = IF Has("layouts") THEN state
                ELSE Replace(state, qmk_json_to_layouts(InitialLayout).val)
    /\ at' = "ortho"
    /\ UNCHANGED <<op, arg, res, pc, query_params, event, updated, error, dialog, actions>>

\* main: the ortho form.
main_ortho ==
    /\ at = "ortho"
    /\ state' = IF event.kind = "ortho" THEN Replace(state, event.val) ELSE state
    /\ at' = "shared"
    /\ UNCHANGED <<op, arg, res, pc, query_params, event, updated, error, dialog, actions>>

\* main: the shared layouts form.
main_shared ==
    /\ at = "shared"
    /\ state' = IF event.kind = "shared" THEN Replace(state, event.val) ELSE state
    /\ at' = "df_button"
    /\ UNCHANGED <<op, arg, res, pc, query_params, event, updated, error, dialog, actions>>

\* main: the button of the dataframe editor shows the dialog; a run that does
\* not call df_editor leaves no dialog on the page.
main_df_button ==
    /\ at = "df_button"
    /\ dialog' = (event.kind = "df_button")
    /\ at' = "json_refresh"
    /\ UNCHANGED <<op, arg, res, pc, state, query_params, event, updated, error, actions>>

\* json_column: the text area is refreshed from the layouts.
json_column_refresh ==
    /\ at = "json_refresh"
    /\ state' = IF state.need_update
                THEN SetItem(state, "json_field", layouts_to_json(state.layouts))
                ELSE state
    /\ at' = "json_button"
    /\ UNCHANGED <<op, arg, res, pc, query_params, event, updated, error, dialog, actions>>

\* json_column: the button decodes the text area.
json_column_button ==
    /\ at = "json_button"
    /\ IF event.kind = "json_button"
       THEN LET r == qmk_json_to_layouts(state.json_field)
            IN  /\ state' = OnDecode(state, r)
                /\ error' = IF r.ok THEN error ELSE "Failed to parse JSON"
       ELSE UNCHANGED <<state, error>>
    /\ at' = "dts_refresh"
    /\ UNCHANGED <<op, arg, res, pc, query_params, event, updated, dialog, actions>>

\* dts_column: the text area is refreshed from the layouts.
dts_column_refresh ==
    /\ at = "dts_refresh"
    /\ state' = IF state.need_update
                THEN SetItem(state, "dts_field", layouts_to_dts(state.layouts))
                ELSE state
    /\ at' = "dts_button"
    /\ UNCHANGED <<op, arg, res, pc, query_params, event, updated, error, dialog, actions>>

\* dts_column: the button decodes the text area.
dts_column_button ==
    /\ at = "dts_button"
    /\ IF event.kind = "dts_button"
       THEN LET r == dts_to_layouts(state.dts_field)
            IN  /\ state' = OnDecode(state, r)
                /\ error' = IF r.ok THEN error ELSE "Failed to parse DTS"
       ELSE UNCHANGED <<state, error>>
    /\ at' = "end"
    /\ UNCHANGED <<op, arg, res, pc, query_params, event, updated, dialog, actions>>

\* main: need_update is cleared when it was set at the start of the run; the
\* script is rerun when need_update is set.
main_end ==
    /\ at = "end"
    /\ LET st == IF updated THEN SetItem(state, "need_update", FALSE) ELSE state
       IN  /\ state' = st
           /\ at' = IF st.need_update THEN "main" ELSE "idle"
    /\ event' = NoEvent
    /\ UNCHANGED <<op, arg, res, pc, query_params, updated, error, dialog, actions>>

\* df_editor: the Update button of the dialog replaces the selected layout
\* and reruns the script.
df_editor ==
    /\ at = "df"
    /\ state' = Replace(state, [state.layouts EXCEPT ![event.selected].layout = event.val])
    /\ event' = NoEvent
    /\ at' = "main"
    /\ UNCHANGED <<op, arg, res, pc, query_params, updated, error, dialog, actions>>

\* The user's use of a widget: the event e starts a run at position p.
UserAction(e, p) ==
    /\ actions < MaxActions
    /\ actions' = actions + 1
    /\ event' = e
    /\ at' = p
    /\ UNCHANGED <<op, arg, res, pc, query_params, updated, error, dialog>>

\* The user presses the JSON column's button, on the text of the area or on
\* a text typed there.  The widgets of the page are out of reach while the
\* dialog is shown.
ClickJsonButton ==
    /\ ~dialog
    /\ Has("json_field")
    /\ \E t \in JsonTexts \cup {state.json_field} : state' = SetItem(state, "json_field", t)
    /\ UserAction([kind |-> "json_button", selected |-> 0, val |-> <<>>], "main")

ClickDtsButton ==
    /\ ~dialog
    /\ Has("dts_field")
    /\ \E t \in DtsTexts \cup {state.dts_field} : state' = SetItem(state, "dts_field", t)
    /\ UserAction([kind |-> "dts_button", selected |-> 0, val |-> <<>>], "main")

SubmitOrtho ==
    /\ ~dialog
    /\ Has("layouts")
    /\ UserAction([kind |-> "ortho", selected |-> 0, val |-> OrthoLayouts], "main")
    /\ UNCHANGED state

SubmitShared ==
    /\ ~dialog
    /\ Has("layouts")
    /\ UserAction([kind |-> "shared", selected |-> 0, val |-> SharedLayouts], "main")
    /\ UNCHANGED state

\* The user presses "Edit with dataframe editor".
ClickDfButton ==
    /\ ~dialog
    /\ Has("layouts")
    /\ UserAction([kind |-> "df_button", selected |-> 0, val |-> <<>>], "main")
    /\ UNCHANGED state

\* The user closes the dialog; no run starts.
DismissDialog ==
    /\ dialog
    /\ dialog' = FALSE
    /\ UNCHANGED <<op, arg, res, pc, state, query_params, event, updated, at, error, actions>>

\* The user presses Update in the dialog, on a layout edited there.
ClickDfUpdate ==
    /\ dialog
    /\ Has("layouts")
    /\ \E selected \in 1..Len(state.layouts) :
          UserAction([kind |-> "df_update", selected |-> selected, val |-> EditedLayout], "df")
    /\ UNCHANGED state

\* The steps of the script.
Run ==
    \/ main_need_update
    \/ main_query_params
    \/ main_first_load
    \/ main_ortho
    \/ main_shared
    \/ main_df_button
    \/ json_column_refresh
    \/ json_column_button
    \/ dts_column_refresh
    \/ dts_column_button
    \/ main_end
    \/ df_editor

AppNext ==
    \/ main_need_update
    \/ main_query_params
    \/ main_first_load
    \/ main_ortho
    \/ main_shared
    \/ main_df_button
    \/ json_column_refresh
    \/ json_column_button
    \/ dts_column_refresh
    \/ dts_column_button
    \/ main_end
    \/ df_editor
    \/ ClickJsonButton
    \/ ClickDtsButton
    \/ SubmitOrtho
    \/ SubmitShared
    \/ ClickDfButton
    \/ DismissDialog
    \/ ClickDfUpdate

AppSpec == AppInit /\ [][AppNext]_vars

Positions ==
    {"main", "query", "first", "ortho", "shared", "df_button", "json_refresh",
     "json_button", "dts_refresh", "dts_button", "end", "df", "idle"}

\* A step of the script seen from outside: the position moves on and the
\* user has not acted.  It is possible exactly when a run is under way, and
\* under AppNext it is a step of Run (ScriptStepIsRun).
ScriptStep == at # "idle" /\ actions' = actions /\ at' \in Positions \ {at}

ScriptStepIsRun == [][ScriptStep => Run]_vars

\* A run under way goes on to its end unless the user starts another.
FairAppSpec == AppInit /\ [][AppNext]_vars /\ WF_<<at, actions>>(ScriptStep)

(***************************************************************************)
(* Claims.                                                                 *)
(***************************************************************************)
NormalizeDone == pc = "done" /\ op = "_normalize_layout" /\ Len(arg) > 0

SameShift(before, after, d) ==
    /\ (before = None) <=> (after = None)
    /\ before # None => after[1] = before[1] - d

\* C4: for every non-empty layout the result of _normalize_layout has
\* min(x) = 0 and min(y) = 0, every x and every non-absent rx is reduced by the
\* same min_x, every y and every non-absent ry by the same min_y, absent rx/ry
\* stay absent, and w, h, r, the key count and the key order are unchanged.
C4_NormalizeShifts ==
    NormalizeDone =>
        /\ res.ok
        /\ Len(res.val) = Len(arg)
        /\ \E i \in 1..Len(res.val) : res.val[i].x = 0
        /\ \E i \in 1..Len(res.val) : res.val[i].y = 0
        /\ \A i \in 1..Len(res.val) : res.val[i].x >= 0 /\ res.val[i].y >= 0
        /\ \E dx \in {arg[j].x : j \in 1..Len(arg)}, dy \in {arg[j].y : j \in 1..Len(arg)} :
              \A i \in 1..Len(arg) :
                 /\ dx <= arg[i].x /\ dy <= arg[i].y
                 /\ res.val[i].x = arg[i].x - dx
                 /\ res.val[i].y = arg[i].y - dy
                 /\ SameShift(arg[i].rx, res.val[i].rx, dx)
                 /\ SameShift(arg[i].ry, res.val[i].ry, dy)
                 /\ res.val[i].w = arg[i].w
                 /\ res.val[i].h = arg[i].h
                 /\ res.val[i].r = arg[i].r

\* A two-key layout whose minimum x and y are not 0, with a present and an
\* absent rotation origin, has been normalized.
C4_Witness ==
    /\ NormalizeDone
    /\ Len(arg) = 2
    /\ arg[1].x = 600 /\ arg[2].x = -400
    /\ arg[1].y = 200 /\ arg[2].y = 200
    /\ arg[1].rx # None /\ arg[1].ry # None
    /\ arg[2].rx = None
    /\ res.ok

\* C5: normalization is idempotent: normalizing a normalized layout changes
\* no field of any key.
C5_NormalizeIdempotent ==
    (pc = "done" /\ op = "_normalize_layout again") => res.ok /\ res.val = arg

\* A layout that was shifted by its first normalization (its rotation origin
\* included) has been normalized a second time.
C5_Witness ==
    /\ pc = "done" /\ op = "_normalize_layout again"
    /\ Len(arg) = 2
    /\ arg[1].x = 1000 /\ arg[2].x = 0
    /\ arg[1].rx = Some(200) /\ arg[1].y = 0 /\ arg[2].y = 200
    /\ res.ok

Abs(n) == IF n < 0 THEN -n ELSE n

\* n - 100 * v, in 1/Unit, for the value v (in 1/Unit)
Off(v, n) == Unit * n - Scale * v

\* n is 100 * v rounded to the nearest integer, ties to the even integer.
NearestEven(v, n) ==
    /\ 2 * Abs(Off(v, n)) <= Unit
    /\ 2 * Abs(Off(v, n)) = Unit => n % 2 = 0

\* n is 100 * v rounded to the nearest integer, ties away from zero.
NearestAway(v, n) ==
    /\ 2 * Abs(Off(v, n)) <= Unit
    /\ 2 * Abs(Off(v, n)) = Unit => Abs(n) * Unit > Abs(v) * Scale

\* s is the decimal numeral of the natural number n.
IsNumeral(s, n) == IsDigits(s) /\ (Len(s) = 1 \/ s[1] # "0") /\ DecValue(s) = n

\* s is str(n): a minus sign for a negative n, then the numeral.
IsStrOf(s, n) ==
    IF n < 0 THEN Len(s) > 1 /\ s[1] = "-" /\ IsNumeral(Tail(s), -n)
    ELSE IsNumeral(s, n)

\* t is "(" + str(n) + ")"
IsParenthesized(t, n) ==
    /\ Len(t) >= 3 /\ t[1] = "(" /\ t[Len(t)] = ")"
    /\ IsStrOf(SubSeq(t, 2, Len(t) - 1), n)

Candidates(v) == ((Scale * v) \div Unit - 1) .. ((Scale * v) \div Unit + 1)

NumToStrDone == pc = "done" /\ op = "num_to_str"

EncodeExamples ==
    /\ arg = -Unit => res.val = <<"(", "-", "1", "0", "0", ")">>
    /\ arg = 0 => res.val = <<"0">>
    /\ arg = 5 * Scale => res.val = <<"1", "2", "5">>

\* C6 (as claimed): the token of v is n = 100 * v rounded to the nearest
\* integer, ties away from zero, written as plain digits when n >= 0 and as
\* "(" + n + ")" when n < 0.
C6_EncodeHalfAway ==
    NumToStrDone =>
        /\ \E n \in Candidates(arg) :
              /\ NearestAway(arg, n)
              /\ IF n >= 0 THEN IsStrOf(res.val, n) ELSE IsParenthesized(res.val, n)
        /\ EncodeExamples

\* C6 (amended): the token of v is n = 100 * v rounded to the nearest integer,
\* ties to the even integer, written as plain digits when v >= 0 and as
\* "(" + str(n) + ")" when v < 0 (so "(0)" when a negative v rounds to 0).
C6_EncodeHalfEven ==
    NumToStrDone =>
        /\ \E n \in Candidates(arg) :
              /\ NearestEven(arg, n)
              /\ IF arg >= 0 THEN IsStrOf(res.val, n) ELSE IsParenthesized(res.val, n)
        /\ EncodeExamples

\* The tie 0.125 (100 * v = 12.5) has been encoded, as "12".
C6_Witness == NumToStrDone /\ arg = 50 /\ res.val = <<"1", "2">>

ParseDone == pc = "done" /\ op = "parse_binding_params"

IsSignedInt(s) == Len(s) > 0 /\ IsDigits(IF s[1] \in {"-", "+"} THEN Tail(s) ELSE s)

\* t is a signed integer, bare or inside exactly one pair of parentheses.
IsPairedToken(t) ==
    \/ IsSignedInt(t)
    \/ Len(t) >= 3 /\ t[1] = "(" /\ t[Len(t)] = ")" /\ IsSignedInt(SubSeq(t, 2, Len(t) - 1))

\* C7 (as claimed): the decoder accepts a token only if its parentheses are
\* paired: a token with one parenthesis only, or with more than one on a side,
\* fails instead of decoding to a value.
C7_PairedParentheses ==
    (ParseDone /\ res.ok) => \A i \in 1..Len(arg) : i <= 7 => IsPairedToken(arg[i])

\* C8: a seven-token binding whose decoded r is 0 gives a Key without rx and
\* ry, whatever its rx and ry tokens; one whose decoded r is not 0 gives a Key
\* with the decoded rx and ry.
C8_OriginDroppedAtZero ==
    (ParseDone /\ Len(arg) = 7 /\ \A i \in 1..7 : DecodeToken(arg[i]).ok) =>
        /\ res.ok
        /\ LET key == QmkKey(res.val)
               r == DecodeToken(arg[5]).val
           IN  /\ key.r = r
               /\ r = 0 => key.rx = None /\ key.ry = None
               /\ r # 0 => /\ key.rx = Some(DecodeToken(arg[6]).val)
                           /\ key.ry = Some(DecodeToken(arg[7]).val)

\* The binding 100 100 0 0 0 50 50 has been decoded.
C8_Witness ==
    /\ ParseDone
    /\ arg = <<T100, T100, T0, T0, T0, <<"5", "0">>, <<"5", "0">>>>
    /\ res.ok
    /\ "rx" \notin DOMAIN res.val

IsHundredths(v) == (v * Scale) % Unit = 0

\* Every field of every key has at most 2 fractional digits.
TwoDecimals(layouts_map) ==
    \A i \in 1..Len(layouts_map) : \A j \in 1..Len(layouts_map[i].layout) :
        LET key == layouts_map[i].layout[j]
        IN  /\ \A v \in {key.x, key.y, key.w, key.h, key.r} : IsHundredths(v)
            /\ key.rx # None => IsHundredths(key.rx[1])
            /\ key.ry # None => IsHundredths(key.ry[1])

NonEmptyLayouts(layouts_map) ==
    \A i \in 1..Len(layouts_map) : Len(layouts_map[i].layout) > 0

\* out has the names of layouts_map, in its order, each with the normalized
\* layout: the same keys in the same order, field by field.
EqualsNormalized(out, layouts_map) ==
    /\ Len(out) = Len(layouts_map)
    /\ \A i \in 1..Len(layouts_map) :
          /\ out[i].name = layouts_map[i].name
          /\ out[i].layout = _normalize_layout(layouts_map[i].layout).val

\* C1 (as claimed): for every Layout Set with at most 2 fractional digits,
\* dts_to_layouts(layouts_to_dts(x)) equals normalize(x), key by key and field
\* by field, with the same names and key order.
C1_DtsRoundTrip ==
    (/\ pc = "done" /\ op = "dts round trip"
     /\ Len(arg) > 0 /\ TwoDecimals(arg) /\ NonEmptyLayouts(arg)) =>
        res.ok /\ EqualsNormalized(res.val, arg)

\* C2: for every Layout Set with at most 2 fractional digits,
\* qmk_json_to_layouts(layouts_to_json(x)) equals normalize(x), key by key and
\* field by field, with the same names and key order.
C2_JsonRoundTrip ==
    (pc = "done" /\ op = "json round trip" /\ TwoDecimals(arg) /\ NonEmptyLayouts(arg)) =>
        res.ok /\ EqualsNormalized(res.val, arg)

\* Two layouts, the first one not normalized and with a rotated key, a key
\* with an origin and fields at their defaults, went through JSON and back.
C2_Witness ==
    /\ pc = "done" /\ op = "json round trip"
    /\ TwoDecimals(arg)
    /\ Len(arg) = 2 /\ arg[1].name = "A"
    /\ Len(arg[1].layout) = 2 /\ Len(arg[2].layout) = 1
    /\ arg[1].layout[1].x = -400 /\ arg[1].layout[1].rx # None
    /\ arg[1].layout[2].r # 0 /\ arg[1].layout[2].rx = None
    /\ res.ok /\ res.val[1].layout[1].x = 0

IsNormalized(layout) ==
    /\ \A i \in 1..Len(layout) : layout[i].x >= 0 /\ layout[i].y >= 0
    /\ \E i \in 1..Len(layout) : layout[i].x = 0
    /\ \E i \in 1..Len(layout) : layout[i].y = 0

\* C3 (as claimed): every Layout returned by JSON decode is normalized, for
\* the object form and for the bare array, which yields the single entry
\* "Default".
C3_JsonDecodeNormalized ==
    (pc = "done" /\ op = "qmk_json_to_layouts" /\ res.ok) =>
        /\ arg.kind = "list" => Len(res.val) = 1 /\ res.val[1].name = "Default"
        /\ \A i \in 1..Len(res.val) :
              Len(res.val[i].layout) > 0 => IsNormalized(res.val[i].layout)

DtsDone == pc = "done" /\ op = "dts_to_layouts"

\* C9 (as claimed): with compatible nodes the result has one Layout per node,
\* named by its display-name, whatever the root keys property; with none and
\* a root keys property it is the single Layout "Default"; with neither the
\* decode fails for want of a layout.
C9_LayoutSources ==
    DtsDone =>
        /\ (Len(arg.nodes) > 0 /\ res.ok) =>
              /\ Len(res.val) = Len(arg.nodes)
              /\ \A i \in 1..Len(arg.nodes) : Some(res.val[i].name) = arg.nodes[i].display_name
        /\ Len(arg.nodes) > 0 => res = dts_to_layouts([arg EXCEPT !.root_keys = None])
        /\ (Len(arg.nodes) = 0 /\ arg.root_keys # None /\ res.ok) =>
              Len(res.val) = 1 /\ res.val[1].name = "Default"
        /\ (Len(arg.nodes) = 0 /\ arg.root_keys = None) =>
              ~res.ok /\ res.err = "ValueError: No compatible nodes nor a single keys property found"

\* C10 (as claimed): the decode fails when some compatible node has no
\* display-name, and when some compatible node has no keys array, wherever
\* the node stands; a successful decode has a Layout for no such node.
C10_DefectiveNodeFails ==
    DtsDone =>
        /\ (\E i \in 1..Len(arg.nodes) : arg.nodes[i].display_name = None) => ~res.ok
        /\ (\E i \in 1..Len(arg.nodes) : arg.nodes[i].keys = None) => ~res.ok

\* The keys arrays the decode reads: those of the compatible nodes when there
\* are any, else the root one.
ConsultedKeys ==
    IF Len(arg.nodes) > 0
    THEN {arg.nodes[i].keys : i \in 1..Len(arg.nodes)}
    ELSE {arg.root_keys}

RecognizedTag == [amps |-> 1, name |-> "key_physical_attrs"]

\* C11 (as claimed): a binding is accepted only when its tag is the reference
\* marker followed by key_physical_attrs; a binding with any other tag, in
\* any keys array the decode reads, makes the whole decode fail.
C11_UnrecognizedTagFails ==
    DtsDone =>
        ((\E k \in ConsultedKeys :
             k # None /\ \E j \in 1..Len(k[1]) : k[1][j].tag # RecognizedTag)
           => ~res.ok)

\* C12 (as claimed): a binding's argument tokens yield a Key only when they
\* are exactly seven; fewer or more never do.
C12_SevenTokens ==
    (ParseDone /\ res.ok /\ QmkLayout(<<res.val>>).ok) => Len(arg) = Len(ParamNames)

DecodeDone == pc = "done" /\ op \in {"qmk_json_to_layouts", "dts_to_layouts"}

\* C13 (as claimed): no successful decode, of a JSON text of either form or
\* of a DTS text, returns a Layout without keys.
C13_NoEmptyLayout ==
    (DecodeDone /\ res.ok) => \A i \in 1..Len(res.val) : Len(res.val[i].layout) > 0

\* A decode attempt of the app that fails: the step of a button pressed on a
\* text that does not decode, or of a query parameter that does not.
FailedAttempt ==
    \/ /\ at = "json_button" /\ at' = "dts_refresh" /\ event.kind = "json_button"
       /\ ~qmk_json_to_layouts(state.json_field).ok
    \/ /\ at = "dts_button" /\ at' = "end" /\ event.kind = "dts_button"
       /\ ~dts_to_layouts(state.dts_field).ok
    \/ /\ at = "query" /\ at' = "idle" /\ query_params # None
       /\ ~qmk_json_to_layouts(query_params[1]).ok

\* C14: a decode attempt that fails leaves state.layouts as it was and does
\* not set need_update.
C14_FailedDecodeAtomic ==
    [][FailedAttempt =>
          /\ Item(state', "layouts") = Item(state, "layouts")
          /\ Item(state', "need_update") = Item(state, "need_update")]_vars

\* A button's decode has failed in a session that has layouts, and
\* need_update is not set.
C14_Witness ==
    /\ at \in {"dts_refresh", "end"}
    /\ error \in {"Failed to parse JSON", "Failed to parse DTS"}
    /\ Has("layouts")
    /\ ~state.need_update

NeedUpdate == Has("need_update") /\ state.need_update

\* The page is at rest and both text areas show the layouts.
Synced ==
    /\ at = "idle"
    /\ Has("layouts") /\ Has("json_field") /\ Has("dts_field")
    /\ ~NeedUpdate
    /\ state.json_field = layouts_to_json(state.layouts)
    /\ state.dts_field = layouts_to_dts(state.layouts)

\* C15 (as claimed): once state.layouts is replaced (need_update is set with
\* it), the app comes to rest with need_update cleared, no rerun asked for,
\* and both text areas equal to the encodings of state.layouts.  Sessions
\* that use up MaxActions are left out, so that a session that breaks the
\* property is one the user could have gone on with.
C15_EventuallySynced == NeedUpdate ~> (Synced \/ actions = MaxActions)

====
